---- MODULE Spec2Model ----
(***************************************************************************)
(* The fsp-srv filesystem service layer of                                 *)
(* src/core/hle/service/filesystem/fsp_srv.cpp: the top-level FSP_SRV      *)
(* service with its romfs cache, and the IStorage, IFile, IDirectory and   *)
(* IFileSystem session objects it hands out.  The backends                 *)
(* (FileSys::StorageBackend, DirectoryBackend, FileSystemBackend and       *)
(* OpenFileSystem) are external: every outcome they can report is drawn    *)
(* nondeterministically.                                                   *)
(***************************************************************************)
EXTENDS Integers, Sequences, FiniteSets, TLC

\* ---------------------------------------------------------------- bounds
MaxLen == 2          \* largest offset / length / size argument drawn
MaxObjects == 2      \* service objects created before opens stop
MaxCalls == 3        \* OpenDataStorageByCurrentProcess / OpenRomStorage calls recorded
MaxEntries == 2      \* largest number of directory entries an output buffer holds

\* ------------------------------------------------------------- constants
NoHandle == 0        \* an empty std::unique_ptr (romfs before it is loaded)
Garbage == -1        \* a backend pointer taken from a failed ResultVal
NoWrite == -1        \* ctx.WriteBuffer was not called
EntrySize == 3       \* sizeof(FileSys::Entry), scaled down

Threads == {1, 2}

VARIABLES
    romfs,       \* FSP_SRV::romfs: NoHandle, or the handle of the cached filesystem
    nextHandle,  \* the next handle a successful backend open returns
    objects,     \* the service objects created so far: <<[kind, backend]>>
    history,     \* per run of FSP_SRV::OpenDataStorageByCurrentProcess (dispatched as
                 \* command 200, or called by OpenRomStorage): what the archive-open
                 \* did ("none", "ok", "fail") and the handle it returned
    resp,        \* the response of the last command
    calls,       \* the backend calls made while handling the last command
    crashed,     \* the process was stopped by a failed assertion / null dereference
    pc,          \* position of each interleaved caller (specification SpecRace only)
    res,         \* TryLoadRomFS's local `res` of each interleaved caller
    fs           \* the backend behind the handles: the files it holds and the files
                 \* opened on its handles (kept only by the reference backend)

vars == <<romfs, nextHandle, objects, history, resp, calls, crashed, pc, res, fs>>

\* ----------------------------------------------------------- result codes
ResultCode(module, description) == [module |-> module, description |-> description]
RESULT_SUCCESS == ResultCode("Common", "Success")
InvalidLength == ResultCode("FS", "InvalidLength")
InvalidOffset == ResultCode("FS", "InvalidOffset")
GenericFailure == ResultCode("raw", "-1")
NoStatus == ResultCode("none", "none")

\* the failure codes a backend may report (it may itself report ResultCode(-1))
BackendErrors == {ResultCode("FS", "PathNotFound"), GenericFailure}

Offsets == {-1, 0, 1}
Lengths == -1 .. MaxLen

\* ------------------------------------------------------ backend outcomes
Ok(val) == [ok |-> TRUE, code |-> RESULT_SUCCESS, val |-> val]
Fail(code) == [ok |-> FALSE, code |-> code, val |-> 0]
Failures == {Fail(e) : e \in BackendErrors}

\* backend->Read(offset, length, out) / backend->Write(offset, length, ...):
\* a failure, or a count of at most `length` bytes
TransferOutcomes(length) == {Ok(c) : c \in 0 .. length} \cup Failures
\* a backend open: a failure, or the new handle
OpenOutcomes == {Ok(nextHandle)} \cup Failures
\* a backend call that reports only a ResultCode
StatusOutcomes == {Ok(0)} \cup Failures

BCall(op, name, args, r) == [op |-> op, name |-> name, args |-> args, r |-> r]

\* a request context after its handler ran: the target object, the command,
\* the scalar arguments popped, and the response built (status, the child
\* object pushed, the bytes given to WriteBuffer, the scalar results pushed)
Response(obj, cmd, args, status, child, written, out) ==
    [obj |-> obj, cmd |-> cmd, args |-> args, status |-> status, child |-> child,
     written |-> written, out |-> out]

NoResponse == Response(0, "none", <<>>, NoStatus, 0, NoWrite, <<>>)

IsObject(o, kind) == o \in DOMAIN objects /\ objects[o].kind = kind

\* make_shared<T>(backend) pushed into the response: the new object's index
NewObject(kind, backend) == Append(objects, [kind |-> kind, backend |-> backend])

CanCreate == Len(objects) < MaxObjects

\* a command is dispatched with a fresh request context: the process runs and
\* the response of the previous command has been delivered
Idle == ~crashed /\ resp = NoResponse

\* a backend of which nothing is assumed: every call may report any outcome
AnyBackend == [reference |-> FALSE, files |-> {}, opened |-> {}]

\* a backend that keeps the files created on each filesystem handle, with the
\* size they were created with, and the file each file handle was opened on
ReferenceBackend == [reference |-> TRUE, files |-> {}, opened |-> {}]

\* the service after construction, over the backend `b`
Constructed(b) ==
    /\ romfs = NoHandle
    /\ nextHandle = 1
    /\ objects = <<>>
    /\ history = <<>>
    /\ resp = NoResponse
    /\ calls = <<>>
    /\ crashed = FALSE
    /\ pc = [t \in Threads |-> "idle"]
    /\ res = [t \in Threads |-> Fail(NoStatus)]
    /\ fs = b

Init == Constructed(AnyBackend)

InitRoundTrip == Constructed(ReferenceBackend)

\* the reference backend answers for the handles it returned
Tracked(h) == fs.reference /\ h > NoHandle

FilesNamed(h, name) == {f \in fs.files : f.fs = h /\ f.name = name}

\* backend->CreateFile(name, size) on filesystem `h`: the outcome and the
\* backend afterwards
Backend_CreateFile(h, name, size) ==
    IF ~Tracked(h) THEN {[r |-> r, fs |-> fs] : r \in StatusOutcomes}
    ELSE IF FilesNamed(h, name) # {} THEN {[r |-> Fail(GenericFailure), fs |-> fs]}
    ELSE {[r |-> Ok(0),
           fs |-> [fs EXCEPT !.files = @ \cup {[fs |-> h, name |-> name, size |-> size]}]]}

\* backend->OpenFile(name, mode) on filesystem `h`
Backend_OpenFile(h, name, mode) ==
    IF ~Tracked(h) THEN {[r |-> r, fs |-> fs] : r \in OpenOutcomes}
    ELSE IF FilesNamed(h, name) = {}
         THEN {[r |-> Fail(ResultCode("FS", "PathNotFound")), fs |-> fs]}
    ELSE {[r |-> Ok(nextHandle),
           fs |-> [fs EXCEPT !.opened =
                      @ \cup {[handle |-> nextHandle, fs |-> h, name |-> name]}]]}

\* backend->GetSize() on file handle `h`
Backend_GetSize(h) ==
    LET open == {f \in fs.opened : f.handle = h}
    IN IF ~Tracked(h) \/ open = {} THEN 0 .. MaxLen
       ELSE {f.size : f \in {g \in fs.files : \E k \in open : g.fs = k.fs /\ g.name = k.name}}

\* ---------------------------------------------------------------- IStorage
\* IStorage::Read's error checking without the offset test
IStorage_Read_Check_NoOffset(offset, length) ==
    IF length < 0 THEN InvalidLength
    ELSE RESULT_SUCCESS

\* the "Error checking" block of IStorage::Read
IStorage_Read_Check(offset, length) ==
    IF length < 0 THEN InvalidLength
    ELSE IF offset < 0 THEN InvalidOffset
    ELSE RESULT_SUCCESS

IStorage_Read(o, offset, length) ==
    /\ Idle
    /\ IsObject(o, "IStorage")
    /\ LET cmd == "IStorage::Read"
           check == IStorage_Read_Check(offset, length)
       IN IF check # RESULT_SUCCESS
          THEN /\ resp' = Response(o, cmd, <<offset, length>>, check, 0, NoWrite, <<>>)
               /\ calls' = <<>>
          ELSE \E r \in TransferOutcomes(length) :
                 /\ calls' = <<BCall("Read", <<>>, <<offset, length>>, r)>>
                 /\ resp' = IF ~r.ok
                            THEN Response(o, cmd, <<offset, length>>, r.code, 0, NoWrite, <<>>)
                            \* output has `length` bytes and all of it is written
                            ELSE Response(o, cmd, <<offset, length>>, RESULT_SUCCESS, 0, length, <<>>)
    /\ UNCHANGED <<romfs, nextHandle, objects, history, crashed, pc, res, fs>>

\* ------------------------------------------------------------------- IFile
\* the "Error checking" block of IFile::Read
IFile_Read_Check(offset, length) ==
    IF length < 0 THEN InvalidLength
    ELSE IF offset < 0 THEN InvalidOffset
    ELSE RESULT_SUCCESS

\* IFile::Read pushing the requested length instead of *res
IFile_Read_PushLength(o, offset, length) ==
    /\ Idle
    /\ IsObject(o, "IFile")
    /\ LET cmd == "IFile::Read"
           check == IFile_Read_Check(offset, length)
       IN IF check # RESULT_SUCCESS
          THEN /\ resp' = Response(o, cmd, <<offset, length>>, check, 0, NoWrite, <<>>)
               /\ calls' = <<>>
          ELSE \E r \in TransferOutcomes(length) :
                 /\ calls' = <<BCall("Read", <<>>, <<offset, length>>, r)>>
                 /\ resp' = IF ~r.ok
                            THEN Response(o, cmd, <<offset, length>>, r.code, 0, NoWrite, <<>>)
                            ELSE Response(o, cmd, <<offset, length>>, RESULT_SUCCESS, 0, length, <<length>>)
    /\ UNCHANGED <<romfs, nextHandle, objects, history, crashed, pc, res, fs>>

IFile_Read(o, offset, length) ==
    /\ Idle
    /\ IsObject(o, "IFile")
    /\ LET cmd == "IFile::Read"
           check == IFile_Read_Check(offset, length)
       IN IF check # RESULT_SUCCESS
          THEN /\ resp' = Response(o, cmd, <<offset, length>>, check, 0, NoWrite, <<>>)
               /\ calls' = <<>>
          ELSE \E r \in TransferOutcomes(length) :
                 /\ calls' = <<BCall("Read", <<>>, <<offset, length>>, r)>>
                 /\ resp' = IF ~r.ok
                            THEN Response(o, cmd, <<offset, length>>, r.code, 0, NoWrite, <<>>)
                            \* output has `length` bytes and all of it is written;
                            \* the count *res is pushed as the second result
                            ELSE Response(o, cmd, <<offset, length>>, RESULT_SUCCESS, 0, length, <<r.val>>)
    /\ UNCHANGED <<romfs, nextHandle, objects, history, crashed, pc, res, fs>>

\* IFile::Write's error checking with the two tests in the other order
IFile_Write_Check_OffsetFirst(offset, length) ==
    IF offset < 0 THEN InvalidOffset
    ELSE IF length < 0 THEN InvalidLength
    ELSE RESULT_SUCCESS

\* the "Error checking" block of IFile::Write
IFile_Write_Check(offset, length) ==
    IF length < 0 THEN InvalidLength
    ELSE IF offset < 0 THEN InvalidOffset
    ELSE RESULT_SUCCESS

\* `dsize` is the size of the vector ctx.ReadBuffer() returns.  The backend is
\* told to write `length` bytes from data.data(); with length > dsize it reads
\* past the vector, which may stop the process.
IFile_Write(o, offset, length, dsize) ==
    /\ Idle
    /\ IsObject(o, "IFile")
    /\ LET cmd == "IFile::Write"
           check == IFile_Write_Check(offset, length)
       IN IF check # RESULT_SUCCESS
          THEN /\ resp' = Response(o, cmd, <<offset, length>>, check, 0, NoWrite, <<>>)
               /\ calls' = <<>>
               /\ crashed' = crashed
          ELSE \E r \in TransferOutcomes(length) :
                 /\ calls' = <<BCall("Write", <<>>, <<offset, length, 1, dsize>>, r)>>
                 /\ \/ /\ resp' = IF ~r.ok
                                  THEN Response(o, cmd, <<offset, length>>, r.code, 0, NoWrite, <<>>)
                                  ELSE Response(o, cmd, <<offset, length>>, RESULT_SUCCESS, 0, NoWrite, <<>>)
                       /\ crashed' = crashed
                    \/ /\ length > dsize
                       /\ resp' = Response(o, cmd, <<offset, length>>, NoStatus, 0, NoWrite, <<>>)
                       /\ crashed' = TRUE
    /\ UNCHANGED <<romfs, nextHandle, objects, history, pc, res, fs>>

\* backend->Flush() returns whether it worked; the result is dropped
IFile_Flush(o) ==
    /\ Idle
    /\ IsObject(o, "IFile")
    /\ \E r \in StatusOutcomes :
         calls' = <<BCall("Flush", <<>>, <<>>, r)>>
    /\ resp' = Response(o, "IFile::Flush", <<>>, RESULT_SUCCESS, 0, NoWrite, <<>>)
    /\ UNCHANGED <<romfs, nextHandle, objects, history, crashed, pc, res, fs>>

\* backend->SetSize(size) returns whether it worked; the result is dropped
IFile_SetSize(o, size) ==
    /\ Idle
    /\ IsObject(o, "IFile")
    /\ \E r \in StatusOutcomes :
         calls' = <<BCall("SetSize", <<>>, <<size>>, r)>>
    /\ resp' = Response(o, "IFile::SetSize", <<size>>, RESULT_SUCCESS, 0, NoWrite, <<>>)
    /\ UNCHANGED <<romfs, nextHandle, objects, history, crashed, pc, res, fs>>

IFile_GetSize(o) ==
    /\ Idle
    /\ IsObject(o, "IFile")
    /\ \E size \in Backend_GetSize(objects[o].backend) :
         /\ calls' = <<BCall("GetSize", <<>>, <<>>, Ok(size))>>
         /\ resp' = Response(o, "IFile::GetSize", <<>>, RESULT_SUCCESS, 0, NoWrite, <<size>>)
    /\ UNCHANGED <<romfs, nextHandle, objects, history, crashed, pc, res, fs>>

\* -------------------------------------------------------------- IDirectory
\* the output buffer sizes ctx.GetWriteBufferSize() may report
BufSizes == 0 .. (MaxEntries * EntrySize + 1)

\* DirectoryBackend::Read(count, out) on a directory with `remaining` entries
\* left: it produces as many as are left, at most `count`
DirectoryBackend_Read(count, remaining) ==
    IF remaining < count THEN remaining ELSE count

\* IDirectory::Read asking for one entry more than fits the output buffer
IDirectory_Read_RoundUp(o, bufsize) ==
    /\ Idle
    /\ IsObject(o, "IDirectory")
    /\ LET count_entries == (bufsize + EntrySize - 1) \div EntrySize
       IN \E remaining \in 0 .. MaxEntries + 1 :
            LET read_entries == DirectoryBackend_Read(count_entries, remaining)
            IN /\ calls' = <<BCall("Read", <<>>, <<count_entries, remaining>>,
                                   Ok(read_entries))>>
               /\ resp' = Response(o, "IDirectory::Read", <<bufsize>>, RESULT_SUCCESS,
                                   0, count_entries * EntrySize, <<read_entries>>)
    /\ UNCHANGED <<romfs, nextHandle, objects, history, crashed, pc, res, fs>>

\* `bufsize` is ctx.GetWriteBufferSize(); it is kept with the request's
\* arguments.  The backend call records the count asked for and the entries
\* the directory had left.
IDirectory_Read(o, bufsize) ==
    /\ Idle
    /\ IsObject(o, "IDirectory")
    /\ LET count_entries == bufsize \div EntrySize
       IN \E remaining \in 0 .. MaxEntries + 1 :
            LET read_entries == DirectoryBackend_Read(count_entries, remaining)
            IN /\ calls' = <<BCall("Read", <<>>, <<count_entries, remaining>>,
                                   Ok(read_entries))>>
               \* output is entries.size() * sizeof(Entry) bytes, all written
               /\ resp' = Response(o, "IDirectory::Read", <<bufsize>>, RESULT_SUCCESS,
                                   0, count_entries * EntrySize, <<read_entries>>)
    /\ UNCHANGED <<romfs, nextHandle, objects, history, crashed, pc, res, fs>>

IDirectory_GetEntryCount(o) ==
    /\ Idle
    /\ IsObject(o, "IDirectory")
    /\ \E count \in 0 .. MaxEntries + 1 :
         /\ calls' = <<BCall("GetEntryCount", <<>>, <<>>, Ok(count))>>
         /\ resp' = Response(o, "IDirectory::GetEntryCount", <<>>, RESULT_SUCCESS, 0,
                             NoWrite, <<count>>)
    /\ UNCHANGED <<romfs, nextHandle, objects, history, crashed, pc, res, fs>>

\* ------------------------------------------------------------- IFileSystem
\* the input buffers drawn for a path argument: empty, without terminator,
\* terminator first, terminator followed by more bytes
Buffers == {<<>>, <<1>>, <<0, 1>>, <<1, 0, 1>>}
Modes == {1, 2}
\* the u32 sizes a CreateFile request carries
FileSizes == {0, 3}

\* std::find(file_buffer.begin(), file_buffer.end(), '\0')
RECURSIVE FindNul(_, _)
FindNul(buf, i) ==
    IF i > Len(buf) THEN i
    ELSE IF buf[i] = 0 THEN i
    ELSE FindNul(buf, i + 1)

\* std::string name(file_buffer.begin(), end)
PathName(file_buffer) == SubSeq(file_buffer, 1, FindNul(file_buffer, 1) - 1)

\* CreateFile that hands the popped mode to the backend as the size
IFileSystem_CreateFile_ModeAsSize(o, file_buffer, mode, size) ==
    /\ Idle
    /\ IsObject(o, "IFileSystem")
    /\ \E b \in Backend_CreateFile(objects[o].backend, PathName(file_buffer), mode) :
         /\ calls' = <<BCall("CreateFile", PathName(file_buffer), <<mode>>, b.r)>>
         /\ fs' = b.fs
         /\ resp' = Response(o, "IFileSystem::CreateFile", <<mode, size>>, b.r.code, 0,
                             NoWrite, <<>>)
    /\ UNCHANGED <<romfs, nextHandle, objects, history, crashed, pc, res>>

IFileSystem_CreateFile(o, file_buffer, mode, size) ==
    /\ Idle
    /\ IsObject(o, "IFileSystem")
    /\ \E b \in Backend_CreateFile(objects[o].backend, PathName(file_buffer), size) :
         /\ calls' = <<BCall("CreateFile", PathName(file_buffer), <<size>>, b.r)>>
         /\ fs' = b.fs
         /\ resp' = Response(o, "IFileSystem::CreateFile", <<mode, size>>, b.r.code, 0,
                             NoWrite, <<>>)
    /\ UNCHANGED <<romfs, nextHandle, objects, history, crashed, pc, res>>

IFileSystem_DeleteFile(o, file_buffer) ==
    /\ Idle
    /\ IsObject(o, "IFileSystem")
    /\ \E r \in StatusOutcomes :
         /\ calls' = <<BCall("DeleteFile", PathName(file_buffer), <<>>, r)>>
         /\ resp' = Response(o, "IFileSystem::DeleteFile", <<>>, r.code, 0, NoWrite, <<>>)
    /\ UNCHANGED <<romfs, nextHandle, objects, history, crashed, pc, res, fs>>

IFileSystem_CreateDirectory(o, file_buffer) ==
    /\ Idle
    /\ IsObject(o, "IFileSystem")
    /\ \E r \in StatusOutcomes :
         /\ calls' = <<BCall("CreateDirectory", PathName(file_buffer), <<>>, r)>>
         /\ resp' = Response(o, "IFileSystem::CreateDirectory", <<>>, r.code, 0, NoWrite, <<>>)
    /\ UNCHANGED <<romfs, nextHandle, objects, history, crashed, pc, res, fs>>

\* OpenFile that unwraps the result without testing result.Failed()
IFileSystem_OpenFile_Unchecked(o, file_buffer, mode) ==
    /\ Idle
    /\ IsObject(o, "IFileSystem")
    /\ CanCreate
    /\ \E result \in OpenOutcomes :
         /\ calls' = <<BCall("OpenFile", PathName(file_buffer), <<mode>>, result)>>
         /\ objects' = NewObject("IFile", IF result.ok THEN result.val ELSE Garbage)
         /\ nextHandle' = IF result.ok THEN nextHandle + 1 ELSE nextHandle
         /\ resp' = Response(o, "IFileSystem::OpenFile", <<mode>>, RESULT_SUCCESS,
                             Len(objects) + 1, NoWrite, <<>>)
    /\ UNCHANGED <<romfs, history, crashed, pc, res, fs>>

IFileSystem_OpenFile(o, file_buffer, mode) ==
    /\ Idle
    /\ IsObject(o, "IFileSystem")
    /\ CanCreate
    /\ \E b \in Backend_OpenFile(objects[o].backend, PathName(file_buffer), mode) :
         /\ calls' = <<BCall("OpenFile", PathName(file_buffer), <<mode>>, b.r)>>
         /\ fs' = b.fs
         /\ LET result == b.r IN
            IF ~result.ok
            THEN /\ resp' = Response(o, "IFileSystem::OpenFile", <<mode>>, result.code, 0,
                                     NoWrite, <<>>)
                 /\ UNCHANGED <<objects, nextHandle>>
            ELSE /\ objects' = NewObject("IFile", result.val)
                 /\ nextHandle' = nextHandle + 1
                 /\ resp' = Response(o, "IFileSystem::OpenFile", <<mode>>, RESULT_SUCCESS,
                                     Len(objects) + 1, NoWrite, <<>>)
    /\ UNCHANGED <<romfs, history, crashed, pc, res>>

\* filter_flags is popped and not used
IFileSystem_OpenDirectory(o, file_buffer) ==
    /\ Idle
    /\ IsObject(o, "IFileSystem")
    /\ CanCreate
    /\ \E result \in OpenOutcomes :
         /\ calls' = <<BCall("OpenDirectory", PathName(file_buffer), <<>>, result)>>
         /\ IF ~result.ok
            THEN /\ resp' = Response(o, "IFileSystem::OpenDirectory", <<>>, result.code, 0,
                                     NoWrite, <<>>)
                 /\ UNCHANGED <<objects, nextHandle>>
            ELSE /\ objects' = NewObject("IDirectory", result.val)
                 /\ nextHandle' = nextHandle + 1
                 /\ resp' = Response(o, "IFileSystem::OpenDirectory", <<>>, RESULT_SUCCESS,
                                     Len(objects) + 1, NoWrite, <<>>)
    /\ UNCHANGED <<romfs, history, crashed, pc, res, fs>>

\* FileSys::EntryType: Directory = 0, File = 1
EntryTypes == {0, 1}

IFileSystem_GetEntryType(o, file_buffer) ==
    /\ Idle
    /\ IsObject(o, "IFileSystem")
    /\ \E result \in {Ok(t) : t \in EntryTypes} \cup Failures :
         /\ calls' = <<BCall("GetEntryType", PathName(file_buffer), <<>>, result)>>
         /\ resp' = IF ~result.ok
                    THEN Response(o, "IFileSystem::GetEntryType", <<>>, result.code, 0,
                                  NoWrite, <<>>)
                    ELSE Response(o, "IFileSystem::GetEntryType", <<>>, RESULT_SUCCESS, 0,
                                  NoWrite, <<result.val>>)
    /\ UNCHANGED <<romfs, nextHandle, objects, history, crashed, pc, res, fs>>

IFileSystem_Commit(o) ==
    /\ Idle
    /\ IsObject(o, "IFileSystem")
    /\ calls' = <<>>
    /\ resp' = Response(o, "IFileSystem::Commit", <<>>, RESULT_SUCCESS, 0, NoWrite, <<>>)
    /\ UNCHANGED <<romfs, nextHandle, objects, history, crashed, pc, res, fs>>

\* a command that dereferences `backend` on an object built from a failed
\* ResultVal: the pointer is not one a backend open returned
UseGarbageBackend(o) ==
    /\ Idle
    /\ o \in DOMAIN objects
    /\ objects[o].backend = Garbage
    /\ calls' = <<>>
    /\ resp' = Response(o, "fault", <<>>, NoStatus, 0, NoWrite, <<>>)
    /\ crashed' = TRUE
    /\ UNCHANGED <<romfs, nextHandle, objects, history, pc, res, fs>>

\* ----------------------------------------------------------------- FSP_SRV
\* TryLoadRomFS without the early return on a loaded cache
TryLoadRomFS_NoCheck(cur, r) ==
    IF r.ok THEN [romfs |-> r.val, open |-> "ok", handle |-> r.val]
    ELSE [romfs |-> cur, open |-> "fail", handle |-> NoHandle]

\* TryLoadRomFS that opens the archive and does not keep it
TryLoadRomFS_NoStore(cur, r) ==
    IF cur # NoHandle THEN [romfs |-> cur, open |-> "none", handle |-> NoHandle]
    ELSE IF r.ok THEN [romfs |-> cur, open |-> "ok", handle |-> r.val]
    ELSE [romfs |-> cur, open |-> "fail", handle |-> NoHandle]

\* TryLoadRomFS that stores the result without testing res.Succeeded()
TryLoadRomFS_StoreFailed(cur, r) ==
    IF cur # NoHandle THEN [romfs |-> cur, open |-> "none", handle |-> NoHandle]
    ELSE IF r.ok THEN [romfs |-> r.val, open |-> "ok", handle |-> r.val]
    ELSE [romfs |-> Garbage, open |-> "fail", handle |-> NoHandle]

\* TryLoadRomFS on a cache holding `cur`; `r` is what OpenFileSystem(Type::RomFS)
\* reports if it is called.  Yields the new romfs and what the archive-open did.
TryLoadRomFS(cur, r) ==
    IF cur # NoHandle THEN [romfs |-> cur, open |-> "none", handle |-> NoHandle]
    ELSE IF r.ok THEN [romfs |-> r.val, open |-> "ok", handle |-> r.val]
    ELSE [romfs |-> cur, open |-> "fail", handle |-> NoHandle]

\* Initialize that drops the cached archive filesystem
FSP_SRV_Initialize_ResetsCache ==
    /\ Idle
    /\ calls' = <<>>
    /\ romfs' = NoHandle
    /\ resp' = Response(0, "Initialize", <<>>, RESULT_SUCCESS, 0, NoWrite, <<>>)
    /\ UNCHANGED <<nextHandle, objects, history, crashed, pc, res, fs>>

FSP_SRV_Initialize ==
    /\ Idle
    /\ calls' = <<>>
    /\ resp' = Response(0, "Initialize", <<>>, RESULT_SUCCESS, 0, NoWrite, <<>>)
    /\ UNCHANGED <<romfs, nextHandle, objects, history, crashed, pc, res, fs>>

\* the handles the service and its objects hold
LiveHandles ==
    {h \in {romfs} \cup {objects[i].backend : i \in DOMAIN objects} : h > NoHandle}

\* what the storage of a failed ResultVal may hold when Unwrap reads it as a
\* unique_ptr: the address of a backend some owner still holds, or an address
\* of no backend (null included)
UninitializedPointers == {Garbage} \cup LiveHandles

\* OpenFileSystem(type, unused).Unwrap() pushed as an IFileSystem.  Unwrap of a
\* failed ResultVal asserts; past the assertion it yields an object that no
\* backend open produced.
MountFileSystem(cmd, type) ==
    /\ Idle
    /\ CanCreate
    /\ \E r \in OpenOutcomes :
         /\ calls' = <<BCall(type, <<>>, <<>>, r)>>
         /\ IF r.ok
            THEN /\ objects' = NewObject("IFileSystem", r.val)
                 /\ nextHandle' = nextHandle + 1
                 /\ resp' = Response(0, cmd, <<>>, RESULT_SUCCESS, Len(objects) + 1,
                                     NoWrite, <<>>)
                 /\ crashed' = crashed
            ELSE \/ /\ crashed' = TRUE
                    /\ resp' = Response(0, cmd, <<>>, NoStatus, 0, NoWrite, <<>>)
                    /\ UNCHANGED <<objects, nextHandle>>
                 \/ \E p \in UninitializedPointers :
                      /\ objects' = NewObject("IFileSystem", p)
                      /\ resp' = Response(0, cmd, <<>>, RESULT_SUCCESS,
                                          Len(objects) + 1, NoWrite, <<>>)
                      /\ UNCHANGED <<crashed, nextHandle>>
    /\ UNCHANGED <<romfs, history, pc, res, fs>>

FSP_SRV_MountSdCard == MountFileSystem("MountSdCard", "OpenFileSystem(SDMC)")

FSP_SRV_MountSaveData == MountFileSystem("MountSaveData", "OpenFileSystem(SaveData)")

UserIds == {0, 1}

\* CreateSaveData that provisions the save data through the backend
FSP_SRV_CreateSaveData_Provisions(uid) ==
    /\ Idle
    /\ \E r \in StatusOutcomes :
         /\ calls' = <<BCall("CreateSaveData", <<>>, <<uid>>, r)>>
         /\ resp' = Response(0, "CreateSaveData", <<uid>>, r.code, 0, NoWrite, <<>>)
    /\ UNCHANGED <<romfs, nextHandle, objects, history, crashed, pc, res, fs>>

FSP_SRV_CreateSaveData(uid) ==
    /\ Idle
    /\ calls' = <<>>
    /\ resp' = Response(0, "CreateSaveData", <<uid>>, RESULT_SUCCESS, 0, NoWrite, <<>>)
    /\ UNCHANGED <<romfs, nextHandle, objects, history, crashed, pc, res, fs>>

FSP_SRV_GetGlobalAccessLogMode ==
    /\ Idle
    /\ calls' = <<>>
    /\ resp' = Response(0, "GetGlobalAccessLogMode", <<>>, RESULT_SUCCESS, 0, NoWrite, <<5>>)
    /\ UNCHANGED <<romfs, nextHandle, objects, history, crashed, pc, res, fs>>

\* OpenDataStorageByCurrentProcess answering ResultCode(-1) on both failure paths
FSP_SRV_OpenDataStorageByCurrentProcess_GenericOnly(cmd) ==
    /\ Idle
    /\ CanCreate
    /\ Len(history) < MaxCalls
    /\ \E r \in OpenOutcomes :
         LET t == TryLoadRomFS(romfs, r)
             fsCall == IF t.open = "none" THEN <<>>
                       ELSE <<BCall("OpenFileSystem(RomFS)", <<>>, <<>>, r)>>
             h == IF t.open = "ok" THEN nextHandle + 1 ELSE nextHandle
         IN /\ romfs' = t.romfs
            /\ history' = Append(history, [open |-> t.open, handle |-> t.handle])
            /\ IF t.romfs = NoHandle
               THEN /\ calls' = fsCall
                    /\ resp' = Response(0, cmd, <<>>, GenericFailure, 0, NoWrite, <<>>)
                    /\ nextHandle' = h
                    /\ objects' = objects
               ELSE \E storage \in {Ok(h)} \cup Failures :
                      /\ calls' = fsCall \o <<BCall("OpenFile", <<>>, <<>>, storage)>>
                      /\ IF ~storage.ok
                         THEN /\ resp' = Response(0, cmd, <<>>, GenericFailure, 0,
                                                  NoWrite, <<>>)
                              /\ nextHandle' = h
                              /\ objects' = objects
                         ELSE /\ resp' = Response(0, cmd, <<>>, RESULT_SUCCESS,
                                                  Len(objects) + 1, NoWrite, <<>>)
                              /\ nextHandle' = h + 1
                              /\ objects' = NewObject("IStorage", storage.val)
    /\ UNCHANGED <<crashed, pc, res, fs>>

\* `cmd` is the command the context was dispatched for: OpenRomStorage runs
\* this handler on its own context.
FSP_SRV_OpenDataStorageByCurrentProcess(cmd) ==
    /\ Idle
    /\ CanCreate
    /\ Len(history) < MaxCalls
    /\ \E r \in OpenOutcomes :
         LET t == TryLoadRomFS(romfs, r)
             fsCall == IF t.open = "none" THEN <<>>
                       ELSE <<BCall("OpenFileSystem(RomFS)", <<>>, <<>>, r)>>
             h == IF t.open = "ok" THEN nextHandle + 1 ELSE nextHandle
         IN /\ romfs' = t.romfs
            /\ history' = Append(history, [open |-> t.open, handle |-> t.handle])
            /\ IF t.romfs = NoHandle
               THEN /\ calls' = fsCall
                    /\ resp' = Response(0, cmd, <<>>, GenericFailure, 0, NoWrite, <<>>)
                    /\ nextHandle' = h
                    /\ objects' = objects
               ELSE \E storage \in {Ok(h)} \cup Failures :
                      /\ calls' = fsCall \o <<BCall("OpenFile", <<>>, <<>>, storage)>>
                      /\ IF ~storage.ok
                         THEN /\ resp' = Response(0, cmd, <<>>, storage.code, 0, NoWrite, <<>>)
                              /\ nextHandle' = h
                              /\ objects' = objects
                         ELSE /\ resp' = Response(0, cmd, <<>>, RESULT_SUCCESS,
                                                  Len(objects) + 1, NoWrite, <<>>)
                              /\ nextHandle' = h + 1
                              /\ objects' = NewObject("IStorage", storage.val)
    /\ UNCHANGED <<crashed, pc, res, fs>>

Cmd_OpenDataStorageByCurrentProcess ==
    FSP_SRV_OpenDataStorageByCurrentProcess("OpenDataStorageByCurrentProcess")

\* OpenRomStorage as a stub of its own that answers success and opens nothing
FSP_SRV_OpenRomStorage_Stub(cmd) ==
    /\ Idle
    /\ calls' = <<>>
    /\ resp' = Response(0, cmd, <<>>, RESULT_SUCCESS, 0, NoWrite, <<>>)
    /\ UNCHANGED <<romfs, nextHandle, objects, history, crashed, pc, res, fs>>

\* OpenRomStorage hands its own context to OpenDataStorageByCurrentProcess
FSP_SRV_OpenRomStorage(cmd) ==
    FSP_SRV_OpenDataStorageByCurrentProcess(cmd)

Cmd_OpenRomStorage ==
    FSP_SRV_OpenRomStorage("OpenRomStorage")

\* ------------------------------------------------------------- dispatcher
\* the IDs registered with a handler in each `functions` table; every other
\* ID is registered with nullptr or absent
IStorage_Handlers == {0}
IFile_Handlers == {0, 1, 2, 3, 4}
IDirectory_Handlers == {0, 1}
\* IFileSystem's table with a handler registered for DeleteDirectory
IFileSystem_Handlers_WithDeleteDirectory == {0, 1, 2, 3, 7, 8, 9, 10}

IFileSystem_Handlers == {0, 1, 2, 7, 8, 9, 10}
FSP_SRV_Handlers == {1, 18, 22, 51, 200, 203, 1005}

\* the object a command is sent to: 0 is the fsp-srv service itself
KindOf(o) == IF o = 0 THEN "FSP_SRV" ELSE objects[o].kind

Handlers(kind) ==
    CASE kind = "IStorage" -> IStorage_Handlers
      [] kind = "IFile" -> IFile_Handlers
      [] kind = "IDirectory" -> IDirectory_Handlers
      [] kind = "IFileSystem" -> IFileSystem_Handlers
      [] kind = "FSP_SRV" -> FSP_SRV_Handlers

NotImplemented == ResultCode("Service", "NotImplemented")

\* the command IDs drawn for requests without a handler
CommandIds == {2, 3, 5, 999}

\* a command ID that has no handler in the target's table: the dispatcher
\* answers "not implemented" and runs nothing
ServiceFramework_Unimplemented(o, id) ==
    /\ Idle
    /\ o = 0 \/ o \in DOMAIN objects
    /\ id \notin Handlers(KindOf(o))
    /\ calls' = <<>>
    /\ resp' = Response(o, "unimplemented", <<id>>, NotImplemented, 0, NoWrite, <<>>)
    /\ UNCHANGED <<romfs, nextHandle, objects, history, crashed, pc, res, fs>>

\* the response is delivered to the caller and the request context is dropped
Deliver ==
    /\ ~crashed
    /\ resp # NoResponse
    /\ resp' = NoResponse
    /\ calls' = <<>>
    /\ UNCHANGED <<romfs, nextHandle, objects, history, crashed, pc, res, fs>>

Objs == 1 .. MaxObjects
\* the input buffer of a Write request: empty, or as long as the longest length
DataSizes == {0, MaxLen}

Next ==
    \/ \E o \in Objs, offset \in Offsets, length \in Lengths :
          IStorage_Read(o, offset, length)
    \/ \E o \in Objs, offset \in Offsets, length \in Lengths :
          IFile_Read(o, offset, length)
    \/ \E o \in Objs, offset \in Offsets, length \in Lengths, dsize \in DataSizes :
          IFile_Write(o, offset, length, dsize)
    \/ \E o \in Objs : IFile_Flush(o)
    \/ \E o \in Objs, size \in 0 .. MaxLen : IFile_SetSize(o, size)
    \/ \E o \in Objs : IFile_GetSize(o)
    \/ \E o \in Objs, bufsize \in BufSizes : IDirectory_Read(o, bufsize)
    \/ \E o \in Objs : IDirectory_GetEntryCount(o)
    \/ \E o \in Objs, b \in Buffers, mode \in Modes, size \in FileSizes :
          IFileSystem_CreateFile(o, b, mode, size)
    \/ \E o \in Objs, b \in Buffers : IFileSystem_DeleteFile(o, b)
    \/ \E o \in Objs, b \in Buffers : IFileSystem_CreateDirectory(o, b)
    \/ \E o \in Objs, b \in Buffers, mode \in Modes : IFileSystem_OpenFile(o, b, mode)
    \/ \E o \in Objs, b \in Buffers : IFileSystem_OpenDirectory(o, b)
    \/ \E o \in Objs, b \in Buffers : IFileSystem_GetEntryType(o, b)
    \/ \E o \in Objs : IFileSystem_Commit(o)
    \/ \E o \in Objs : UseGarbageBackend(o)
    \/ FSP_SRV_Initialize
    \/ FSP_SRV_MountSdCard
    \/ FSP_SRV_MountSaveData
    \/ \E uid \in UserIds : FSP_SRV_CreateSaveData(uid)
    \/ FSP_SRV_GetGlobalAccessLogMode
    \/ Cmd_OpenDataStorageByCurrentProcess
    \/ Cmd_OpenRomStorage
    \/ \E o \in 0 .. MaxObjects, id \in CommandIds : ServiceFramework_Unimplemented(o, id)
    \/ Deliver

\* ------------------------------------------- interleaved first-time callers
\* Two callers run OpenDataStorageByCurrentProcess with no lock around
\* TryLoadRomFS: each statement of the handler is a step of its own.
NotCalled == Fail(NoStatus)

\* OpenDataStorageByCurrentProcess is entered
ODS_Enter(t) ==
    /\ pc[t] = "idle"
    /\ LET active == Cardinality({u \in Threads : pc[u] # "idle"})
       IN /\ Len(history) + active < MaxCalls
          /\ Len(objects) + active < MaxObjects
    /\ pc' = [pc EXCEPT ![t] = "check"]
    /\ res' = [res EXCEPT ![t] = NotCalled]
    /\ UNCHANGED <<romfs, nextHandle, objects, history, resp, calls, crashed, fs>>

\* if (romfs) return;
TryLoadRomFS_Check(t) ==
    /\ pc[t] = "check"
    /\ IF romfs # NoHandle
       THEN /\ pc' = [pc EXCEPT ![t] = "respond"]
            /\ history' = Append(history, [open |-> "none", handle |-> NoHandle])
       ELSE /\ pc' = [pc EXCEPT ![t] = "open"]
            /\ history' = history
    /\ UNCHANGED <<romfs, nextHandle, objects, resp, calls, crashed, res, fs>>

\* auto res = OpenFileSystem(Type::RomFS, unused);
TryLoadRomFS_Open(t) ==
    /\ pc[t] = "open"
    /\ \E r \in OpenOutcomes :
         /\ res' = [res EXCEPT ![t] = r]
         /\ nextHandle' = IF r.ok THEN nextHandle + 1 ELSE nextHandle
         /\ history' = Append(history,
                [open |-> IF r.ok THEN "ok" ELSE "fail",
                 handle |-> IF r.ok THEN r.val ELSE NoHandle])
    /\ pc' = [pc EXCEPT ![t] = "assign"]
    /\ UNCHANGED <<romfs, objects, resp, calls, crashed, fs>>

\* if (res.Succeeded()) romfs = std::move(res.Unwrap());
TryLoadRomFS_Assign(t) ==
    /\ pc[t] = "assign"
    /\ romfs' = IF res[t].ok THEN res[t].val ELSE romfs
    /\ pc' = [pc EXCEPT ![t] = "respond"]
    /\ UNCHANGED <<nextHandle, objects, history, resp, calls, crashed, res, fs>>

\* the rest of OpenDataStorageByCurrentProcess, after TryLoadRomFS returned
ODS_Respond(t) ==
    /\ pc[t] = "respond"
    /\ LET cmd == "OpenDataStorageByCurrentProcess"
           fsCall == IF res[t] = NotCalled THEN <<>>
                     ELSE <<BCall("OpenFileSystem(RomFS)", <<>>, <<>>, res[t])>>
       IN IF romfs = NoHandle
          THEN /\ calls' = fsCall
               /\ resp' = Response(0, cmd, <<>>, GenericFailure, 0, NoWrite, <<>>)
               /\ UNCHANGED <<nextHandle, objects>>
          ELSE \E storage \in OpenOutcomes :
                 /\ calls' = fsCall \o <<BCall("OpenFile", <<>>, <<>>, storage)>>
                 /\ IF ~storage.ok
                    THEN /\ resp' = Response(0, cmd, <<>>, storage.code, 0, NoWrite, <<>>)
                         /\ UNCHANGED <<nextHandle, objects>>
                    ELSE /\ resp' = Response(0, cmd, <<>>, RESULT_SUCCESS,
                                             Len(objects) + 1, NoWrite, <<>>)
                         /\ nextHandle' = nextHandle + 1
                         /\ objects' = NewObject("IStorage", storage.val)
    /\ pc' = [pc EXCEPT ![t] = "idle"]
    /\ UNCHANGED <<romfs, history, crashed, res, fs>>

NextRace ==
    \/ \E t \in Threads : ODS_Enter(t)
    \/ \E t \in Threads : TryLoadRomFS_Check(t)
    \/ \E t \in Threads : TryLoadRomFS_Open(t)
    \/ \E t \in Threads : TryLoadRomFS_Assign(t)
    \/ \E t \in Threads : ODS_Respond(t)

SpecRace == Init /\ [][NextRace]_vars

\* ------------------------------------------------- over a reference backend
\* the commands of a create / open / get-size round trip, served over a
\* backend that keeps the files it was asked to create
NextRoundTrip ==
    \/ FSP_SRV_MountSdCard
    \/ \E o \in Objs, b \in Buffers, mode \in Modes, size \in FileSizes :
          IFileSystem_CreateFile(o, b, mode, size)
    \/ \E o \in Objs, b \in Buffers, mode \in Modes : IFileSystem_OpenFile(o, b, mode)
    \/ \E o \in Objs : IFile_GetSize(o)
    \/ Deliver

SpecRoundTrip == InitRoundTrip /\ [][NextRoundTrip]_vars

Spec == Init /\ [][Next]_vars

\* ================================================================= claims
ReadWriteCmds == {"IStorage::Read", "IFile::Read", "IFile::Write"}
StorageCmds == {"OpenDataStorageByCurrentProcess", "OpenRomStorage"}
MountCmds == {"MountSdCard", "MountSaveData"}

\* the runs of the archive-open, OpenFileSystem(Type::RomFS), among `cs`
ArchiveOpens(cs) == {i \in DOMAIN cs : cs[i].op = "OpenFileSystem(RomFS)"}

\* the runs of OpenDataStorageByCurrentProcess whose archive-open succeeded
Loads == {i \in DOMAIN history : history[i].open = "ok"}

\* how many times run i of OpenDataStorageByCurrentProcess invoked the archive-open
Opens(i) == IF history[i].open = "none" THEN 0 ELSE 1

\* C1: a Storage.Read, File.Read or File.Write request with length < 0, whatever
\* its offset, is answered InvalidLength and no backend operation is invoked.
C1_NegativeLengthRejected ==
    (resp.cmd \in ReadWriteCmds /\ resp.args[2] < 0)
        => (resp.status = InvalidLength /\ calls = <<>>)

C1_Witness ==
    /\ resp.cmd = "IFile::Write"
    /\ resp.args[1] < 0
    /\ resp.args[2] < 0
    /\ resp.status = InvalidLength

\* C2: a Storage.Read, File.Read or File.Write request with offset < 0 and
\* length >= 0 is answered InvalidOffset and no backend operation is invoked.
C2_NegativeOffsetRejected ==
    (resp.cmd \in ReadWriteCmds /\ resp.args[1] < 0 /\ resp.args[2] >= 0)
        => (resp.status = InvalidOffset /\ calls = <<>>)

C2_Witness ==
    /\ resp.cmd = "IStorage::Read"
    /\ resp.args[1] < 0
    /\ resp.args[2] >= 0
    /\ resp.status = InvalidOffset

\* C3: from a state in which the cache is Loaded, every step keeps the same
\* cached filesystem, invokes no archive-open, and every run of
\* OpenDataStorageByCurrentProcess / OpenRomStorage it records did not open the
\* archive (also when the step fails to open the storage view).
C3_LoadedStaysLoaded ==
    [][romfs # NoHandle =>
          /\ romfs' = romfs
          /\ ArchiveOpens(calls') = {}
          /\ \A i \in DOMAIN history' :
                i > Len(history) => history'[i].open = "none"]_vars

\* the cache is Loaded, a later call hit it, and that call failed to open the
\* storage view
C3_Witness ==
    /\ romfs # NoHandle
    /\ Len(history) >= 2
    /\ history[Len(history)].open = "none"
    /\ resp.cmd \in StorageCmds
    /\ resp.status \in BackendErrors
    /\ resp.child = 0

\* C4 as stated: any two consecutive runs of OpenDataStorageByCurrentProcess
\* invoke the archive-open at most once in total.
C4_AtMostOneOpenInTwoCalls ==
    \A i \in DOMAIN history :
        i + 1 \in DOMAIN history => Opens(i) + Opens(i + 1) <= 1

\* C4 amended: two consecutive runs of OpenDataStorageByCurrentProcess invoke
\* the archive-open at most once in total unless the archive-open of the first
\* run failed; after a failed archive-open the second run invokes it again.
C4_AtMostOneOpenUnlessFailed ==
    \A i \in DOMAIN history :
        i + 1 \in DOMAIN history =>
            /\ history[i].open # "fail" => Opens(i) + Opens(i + 1) <= 1
            /\ history[i].open = "fail" => Opens(i + 1) = 1

\* the first run opened the archive and the second run reused it
C4_Witness ==
    /\ Len(history) >= 2
    /\ history[1].open = "ok"
    /\ history[2].open = "none"
    /\ resp.cmd = "OpenDataStorageByCurrentProcess"

\* C5: a run of OpenDataStorageByCurrentProcess / OpenRomStorage that starts
\* with the cache Unloaded invokes the archive-open exactly once; if that open
\* fails the cache is still Unloaded, if it succeeds the cache holds the
\* filesystem it returned.
C5_UnloadedRetries ==
    [][(romfs = NoHandle /\ Len(history') > Len(history)) =>
          LET e == history'[Len(history')]
          IN /\ e.open \in {"ok", "fail"}
             /\ Cardinality(ArchiveOpens(calls')) = 1
             /\ e.open = "fail" => romfs' = NoHandle
             /\ e.open = "ok" => (romfs' = e.handle /\ romfs' # NoHandle)]_vars

\* two failed opens, each retried, and a third that loads the cache
C5_Witness ==
    /\ Len(history) = 3
    /\ history[1].open = "fail"
    /\ history[2].open = "fail"
    /\ history[3].open = "ok"
    /\ romfs = history[3].handle

\* C6: with interleaved first-time callers the check-and-populate sequence is
\* serialized: the archive-open does not succeed twice, and a loaded cache
\* holds the filesystem of the first successful open.
C6_CheckAndPopulateSerialized ==
    /\ Cardinality(Loads) <= 1
    /\ romfs # NoHandle => \A i \in Loads : romfs = history[i].handle

\* C7: FileSystem.OpenFile and OpenDirectory put a child object in the
\* response exactly when the backend open succeeded, built on the handle the
\* backend returned; when it failed the status is the backend's failure code
\* and no object is created.
C7_ChildIffBackendOpened ==
    [][resp'.cmd \in {"IFileSystem::OpenFile", "IFileSystem::OpenDirectory"} =>
          LET result == calls'[1].r
              kind == IF resp'.cmd = "IFileSystem::OpenFile" THEN "IFile"
                      ELSE "IDirectory"
          IN /\ (resp'.child # 0) <=> result.ok
             /\ ~result.ok => /\ resp'.status = result.code
                              /\ resp'.status # RESULT_SUCCESS
                              /\ objects' = objects
             /\ result.ok => /\ resp'.status = RESULT_SUCCESS
                             /\ resp'.child = Len(objects) + 1
                             /\ objects' = Append(objects,
                                    [kind |-> kind, backend |-> result.val])]_vars

\* OpenFile on a path the backend does not find
C7_Witness ==
    /\ resp.cmd = "IFileSystem::OpenFile"
    /\ ~calls[1].r.ok
    /\ resp.status = ResultCode("FS", "PathNotFound")
    /\ resp.child = 0

\* C8: every command completes with a status code, and MountSdCard /
\* MountSaveData expose no FileSystemObject when the backend filesystem open
\* fails.
C8_EveryPathYieldsStatus ==
    /\ ~crashed
    /\ resp # NoResponse => resp.status # NoStatus
    /\ (resp.cmd \in MountCmds /\ ~calls[1].r.ok) => resp.child = 0

\* C9: OpenDataStorageByCurrentProcess answers ResultCode(-1) with no object
\* when the archive cannot be opened, the backend's failure code with no
\* object when the archive is open and the storage view cannot be opened, and
\* success with exactly one new IStorage on the view's handle otherwise.
C9_OpenDataStorageOutcomes ==
    [][resp'.cmd = "OpenDataStorageByCurrentProcess" =>
          LET view == calls'[Len(calls')]
          IN IF romfs' = NoHandle
             THEN /\ resp'.status = GenericFailure
                  /\ resp'.child = 0
                  /\ objects' = objects
                  /\ view.op = "OpenFileSystem(RomFS)" /\ ~view.r.ok
             ELSE /\ view.op = "OpenFile"
                  /\ ~view.r.ok => /\ resp'.status = view.r.code
                                   /\ resp'.child = 0
                                   /\ objects' = objects
                  /\ view.r.ok => /\ resp'.status = RESULT_SUCCESS
                                  /\ resp'.child = Len(objects) + 1
                                  /\ objects' = Append(objects,
                                         [kind |-> "IStorage",
                                          backend |-> view.r.val])]_vars

\* the archive is open and the storage view fails with the backend's own code
C9_Witness ==
    /\ resp.cmd = "OpenDataStorageByCurrentProcess"
    /\ romfs # NoHandle
    /\ resp.status = ResultCode("FS", "PathNotFound")
    /\ resp.child = 0

\* C10: a Storage.Read or File.Read with offset >= 0 and length >= 0 on which
\* the backend reports count c writes exactly c bytes to the output buffer.
C10_WritesBackReportedCount ==
    (/\ resp.cmd \in {"IStorage::Read", "IFile::Read"}
     /\ calls # <<>>
     /\ calls[1].r.ok)
        => resp.written = calls[1].r.val
\* C11: a File.Read with offset >= 0 and length >= 0 on which the backend
\* succeeds with count c <= length is answered success with bytes_read = c,
\* also when c < length.
C11_ReadReportsBackendCount ==
    (/\ resp.cmd = "IFile::Read"
     /\ calls # <<>>
     /\ calls[1].r.ok)
        => /\ resp.args[1] >= 0 /\ resp.args[2] >= 0
           /\ calls[1].r.val <= resp.args[2]
           /\ resp.status = RESULT_SUCCESS
           /\ resp.out = <<calls[1].r.val>>

\* a short read: the backend filled fewer bytes than were asked for
C11_Witness ==
    /\ resp.cmd = "IFile::Read"
    /\ calls # <<>>
    /\ calls[1].r.ok
    /\ calls[1].r.val < resp.args[2]
    /\ resp.status = RESULT_SUCCESS
    /\ resp.out = <<calls[1].r.val>>
\* C12: Directory.Read asks the backend for floor(buffer bytes / record size)
\* entries, the most that fit, and answers success with the number of entries
\* the backend produced; with room for N entries and more than N left in the
\* backend the count is N.
C12_DirectoryReadCount ==
    resp.cmd = "IDirectory::Read" =>
        LET bufsize == resp.args[1]
            asked == calls[1].args[1]
            left == calls[1].args[2]
        IN /\ asked * EntrySize <= bufsize
           /\ bufsize < (asked + 1) * EntrySize
           /\ resp.status = RESULT_SUCCESS
           /\ resp.out = <<calls[1].r.val>>
           /\ left > asked => resp.out = <<asked>>

\* a buffer with room for N >= 1 entries, not a multiple of the record size,
\* read from a directory with more than N entries left
C12_Witness ==
    /\ resp.cmd = "IDirectory::Read"
    /\ resp.args[1] > EntrySize
    /\ resp.args[1] % EntrySize # 0
    /\ calls[1].args[2] > calls[1].args[1]
    /\ resp.out = <<resp.args[1] \div EntrySize>>

\* C13: Directory.Read writes to the output buffer exactly the entries the
\* backend produced: k records, k times the record size in bytes.
C13_WritesEntriesProduced ==
    resp.cmd = "IDirectory::Read" => resp.written = calls[1].r.val * EntrySize
\* the commands of File and FileSystem objects that call the backend
ForwardingCmds ==
    {"IFile::Read", "IFile::Write", "IFile::Flush", "IFile::SetSize",
     "IFileSystem::CreateFile", "IFileSystem::DeleteFile",
     "IFileSystem::CreateDirectory", "IFileSystem::OpenFile",
     "IFileSystem::OpenDirectory", "IFileSystem::GetEntryType"}

\* C14: when the backend call of such a command fails the response status is
\* the backend's failure code, and success is answered only when the backend
\* call succeeded.
C14_BackendCodePassedThrough ==
    (resp.cmd \in ForwardingCmds /\ calls # <<>> /\ ~crashed) =>
        /\ ~calls[1].r.ok => resp.status = calls[1].r.code
        /\ resp.status = RESULT_SUCCESS => calls[1].r.ok
\* the IDs the claim names: registered with no handler, or absent
NoHandlerIds(kind) ==
    CASE kind = "IStorage" -> {1, 2, 3, 4, 5}
      [] kind = "IFileSystem" -> {3, 5, 999}
      [] OTHER -> {}

\* C15: a command ID with no handler in the target's table (Write, Flush,
\* SetSize, GetSize, OperateRange on an IStorage; DeleteDirectory, RenameFile
\* and 999 on an IFileSystem) is answered "not implemented", and that answer
\* invokes no backend operation, changes neither the objects nor the cache
\* and does not stop the process.
C15_UnimplementedRejected ==
    /\ [](Idle => \A o \in DOMAIN objects : \A id \in NoHandlerIds(objects[o].kind) :
                     ENABLED ServiceFramework_Unimplemented(o, id))
    /\ [][resp'.cmd = "unimplemented" =>
             /\ resp'.status = NotImplemented
             /\ resp'.child = 0
             /\ calls' = <<>>
             /\ ~crashed'
             /\ UNCHANGED <<romfs, nextHandle, objects, history>>]_vars

\* command 999 sent to an IFileSystem while the cache is Loaded
C15_Witness ==
    /\ resp.cmd = "unimplemented"
    /\ resp.args = <<999>>
    /\ resp.obj \in DOMAIN objects
    /\ objects[resp.obj].kind = "IFileSystem"
    /\ resp.status = NotImplemented
    /\ romfs # NoHandle

PlaceholderCmds == {"CreateSaveData", "Initialize", "IFileSystem::Commit"}

\* C16: CreateSaveData (for every user id), Initialize and FileSystem.Commit
\* can be served whenever a command can be dispatched, answer success, invoke
\* no backend operation and leave the objects, the handles and the cache as
\* they were.
C16_PlaceholdersSucceed ==
    /\ [](Idle => /\ ENABLED FSP_SRV_Initialize
                  /\ \A uid \in UserIds : ENABLED FSP_SRV_CreateSaveData(uid)
                  /\ \A o \in DOMAIN objects :
                        objects[o].kind = "IFileSystem" => ENABLED IFileSystem_Commit(o))
    /\ [][resp'.cmd \in PlaceholderCmds =>
             /\ resp'.status = RESULT_SUCCESS
             /\ resp'.child = 0
             /\ calls' = <<>>
             /\ UNCHANGED <<romfs, nextHandle, objects, history, crashed>>]_vars

\* CreateSaveData answered while the cache is Loaded and an object exists
C16_Witness ==
    /\ resp.cmd = "CreateSaveData"
    /\ resp.args = <<1>>
    /\ resp.status = RESULT_SUCCESS
    /\ romfs # NoHandle
    /\ objects # <<>>
\* C20: only OpenDataStorageByCurrentProcess and OpenRomStorage touch the
\* resource cache: every other step (the other top-level commands, an
\* unimplemented ID, every command on a Storage, File, Directory or FileSystem
\* object) leaves romfs as it was, invokes no archive-open and is not a run of
\* the cache-loading handler.
C20_CacheFrame ==
    [][resp'.cmd \notin StorageCmds =>
          /\ romfs' = romfs
          /\ ArchiveOpens(calls') = {}
          /\ history' = history]_vars

\* MountSdCard answered with a new FileSystem object while the cache is Loaded
C20_Witness ==
    /\ romfs # NoHandle
    /\ resp.cmd = "MountSdCard"
    /\ resp.status = RESULT_SUCCESS
    /\ resp.child # 0
    /\ calls # <<>>
\* C18: OpenRomStorage is equivalent to OpenDataStorageByCurrentProcess: from
\* every cache and backend state, a step that answers either command on a
\* request context is a step of the OpenRomStorage handler on that context
\* exactly if it is a step of the OpenDataStorageByCurrentProcess handler on it
\* (same status, same child, same backend calls, same resulting cache).
C18_OpenRomStorageEquivalent ==
    [][resp'.cmd \in StorageCmds =>
          (FSP_SRV_OpenRomStorage(resp'.cmd)
              <=> FSP_SRV_OpenDataStorageByCurrentProcess(resp'.cmd))]_vars

\* OpenRomStorage served from the cache an earlier request loaded
C18_Witness ==
    /\ resp.cmd = "OpenRomStorage"
    /\ resp.status = RESULT_SUCCESS
    /\ resp.child # 0
    /\ Len(history) >= 2
    /\ history[1].open = "ok"
    /\ history[Len(history)].open = "none"
    /\ ArchiveOpens(calls) = {}
SizeBehind(b, h) ==
    {f.size : f \in {g \in b.files :
                       \E k \in b.opened : k.handle = h /\ k.fs = g.fs /\ k.name = g.name}}

\* C17: round trip over the reference backend.  A successful CreateFile(name,
\* mode, s) on a mounted filesystem leaves the file `name` with size s in the
\* backend; a successful OpenFile(name, mode) answers a new File object on a
\* handle opened on that file; GetSize on that object answers success with the
\* size the file was created with; and no step in between changes a file or
\* an open handle the backend already holds.
C17_RoundTrip ==
    [][/\ \A o \in Objs, b \in Buffers, mode \in Modes, size \in FileSizes :
            (/\ IFileSystem_CreateFile(o, b, mode, size)
             /\ Tracked(objects[o].backend)
             /\ resp'.status = RESULT_SUCCESS)
                => {f.size : f \in {g \in fs'.files : /\ g.fs = objects[o].backend
                                                      /\ g.name = PathName(b)}} = {size}
       /\ \A o \in Objs, b \in Buffers, mode \in Modes :
            (/\ IFileSystem_OpenFile(o, b, mode)
             /\ Tracked(objects[o].backend)
             /\ resp'.status = RESULT_SUCCESS)
                => /\ resp'.child = Len(objects')
                   /\ objects'[resp'.child].kind = "IFile"
                   /\ {k \in fs'.opened : k.handle = objects'[resp'.child].backend}
                         = {[handle |-> objects'[resp'.child].backend,
                             fs |-> objects[o].backend, name |-> PathName(b)]}
       /\ \A o \in Objs :
            (/\ IFile_GetSize(o)
             /\ SizeBehind(fs, objects[o].backend) # {})
                => /\ resp'.status = RESULT_SUCCESS
                   /\ {resp'.out[1]} = SizeBehind(fs, objects[o].backend)
       /\ fs.files \subseteq fs'.files
       /\ fs.opened \subseteq fs'.opened
       /\ \A f, g \in fs'.files : (f.fs = g.fs /\ f.name = g.name) => f = g
       /\ \A k, l \in fs'.opened : k.handle = l.handle => k = l]_vars

\* GetSize answered 3 on the File object opened on a file created with size 3
C17_Witness ==
    /\ fs.reference
    /\ resp.cmd = "IFile::GetSize"
    /\ resp.status = RESULT_SUCCESS
    /\ resp.out = <<3>>
    /\ SizeBehind(fs, objects[resp.obj].backend) = {3}
\* C21: a File.Write with offset >= 0 and length >= 0 never asks the backend
\* to write more bytes than the input buffer holds: the length forwarded in
\* backend->Write is at most the size of the vector ReadBuffer returned.
C21_WriteWithinInputBuffer ==
    (/\ resp.cmd = "IFile::Write"
     /\ resp.args[1] >= 0
     /\ resp.args[2] >= 0
     /\ calls # <<>>)
        => calls[1].args[2] <= calls[1].args[4]
====
